---- MODULE Spec2Model ----
(***************************************************************************)
(* A model of smtpd's Conn (conn.go): the per-connection SMTP session      *)
(* state, its MAIL transaction operations and its line-oriented reads.     *)
(*                                                                         *)
(* Bytes are modelled as one-character strings, with "CR" and "LF" for the *)
(* two line-terminator bytes.  A 64-bit nanosecond timestamp is modelled   *)
(* as the pair <<high word, low word>> of its two 32-bit halves, so that   *)
(* the conversion to the platform's int keeps its width.                   *)
(***************************************************************************)
EXTENDS Integers, Sequences, FiniteSets, TLC

\* ------------------------------------------------------------------ bounds
MaxRcpt   == 1      \* recipients the dispatcher appends to ToAddr
MaxErrors == 1      \* errors the dispatcher appends to Errors
MaxLines  == 3      \* lines the peer sends before it closes the stream
MaxCap    == 6      \* largest positive MaxSize the caller configures
MaxClock  == 2      \* ticks of the clock during a session

\* ------------------------------------------------------------- value sets
Nil      == "nil"
Addrs    == {"a@x", "b@y"}
Users    == {"alice"}
Timeouts == {30}

\* errors
ErrTransaction   == "ErrTransaction"
EOF              == "EOF"
ErrUnexpectedEOF == "unexpected EOF"
ErrClosed        == "use of closed network connection"

\* int(...) of a 64-bit value on a platform whose int has `bits` bits:
\* a 32-bit int keeps the low word only.
ToInt(ns, bits) == IF bits = 64 THEN ns ELSE <<0, ns[2]>>
Zero == <<0, 0>>

\* time.Now().UnixNano(): readings of the wall clock, as <<high, low>> words.
ClockReadings == { <<416000000, 0>>, <<416000000, 1000>> }

\* ------------------------------------------------------------------ state
VARIABLES
    c,          \* the Conn struct (conn.go:17-39), a record of its fields
    net,        \* the embedded net.Conn: `wire`, the bytes the peer sent that are
                \* not read yet; `closed`; `rdl`, `wdl`, the read and the write
                \* deadline in force (0: none)
    intBits,    \* width of the platform's int (32 or 64)
    clock,      \* time.Now(), in ticks
    ret,        \* the last call and what it returned
    last,       \* history: the most recent of {successful StartTX, successful EndTX, Reset}
    seen,       \* history: the <<call, error>> pairs of the transaction calls that failed
    sent,       \* history: everything the peer sends on this connection
    got,        \* history: the bytes that read calls have taken out of the decoder
    task,       \* per task, the call it is inside of and how far it got
    pre         \* history: the struct when the calls now in progress began

vars == <<c, net, intBits, clock, ret, last, seen, sent, got, task, pre>>

\* ---------------------------------------------------------------- helpers
Min(a, b) == IF a < b THEN a ELSE b

RECURSIVE IndexOf(_, _)
\* position of the first b in s, 0 when there is none
IndexOf(s, b) ==
    IF s = <<>> THEN 0
    ELSE IF Head(s) = b THEN 1
    ELSE LET r == IndexOf(Tail(s), b) IN IF r = 0 THEN 0 ELSE r + 1

Take(s, n) == SubSeq(s, 1, n)
Drop(s, n) == SubSeq(s, n + 1, Len(s))

RECURSIVE Flatten(_)
Flatten(ss) == IF ss = <<>> THEN <<>> ELSE Head(ss) \o Flatten(Tail(ss))

\* ------------------------------------------------------ transaction state
\* A StartTX that begins every transaction with an empty recipient list.
StartTX_ClearsRcpt(s, from, now, bits) ==
    IF s.transaction # Zero
    THEN [c |-> s, err |-> ErrTransaction]
    ELSE [c |-> [s EXCEPT !.transaction = ToInt(now, bits), !.FromAddr = from,
                          !.ToAddr = <<>>],
          err |-> Nil]

\* A StartTX that opens the transaction but forgets to store the sender.
StartTX_DropsFrom(s, from, now, bits) ==
    IF s.transaction # Zero
    THEN [c |-> s, err |-> ErrTransaction]
    ELSE [c |-> [s EXCEPT !.transaction = ToInt(now, bits)], err |-> Nil]

\* StartTX (conn.go:53-60) on struct s, with the clock reading `now`.
StartTX(s, from, now, bits) ==
    IF s.transaction # Zero
    THEN [c |-> s, err |-> ErrTransaction]
    ELSE [c |-> [s EXCEPT !.transaction = ToInt(now, bits), !.FromAddr = from],
          err |-> Nil]

\* An EndTX that also discards the envelope.
EndTX_ClearsEnvelope(s) ==
    IF s.transaction = Zero
    THEN [c |-> s, err |-> ErrTransaction]
    ELSE [c |-> [s EXCEPT !.transaction = Zero, !.FromAddr = Nil, !.ToAddr = <<>>],
          err |-> Nil]

\* EndTX (conn.go:63-69)
EndTX(s) ==
    IF s.transaction = Zero
    THEN [c |-> s, err |-> ErrTransaction]
    ELSE [c |-> [s EXCEPT !.transaction = Zero], err |-> Nil]

\* A Reset that also throws the line decoder away, for the next read to
\* construct a new one.
Reset_DropsDecoder(s) ==
    [s EXCEPT !.User = Nil, !.FromAddr = Nil, !.ToAddr = <<>>, !.transaction = Zero,
              !.asTextProto = [done |-> FALSE, m |-> "unlocked"], !.textProto = <<>>]

\* A Reset that leaves the transaction open.
Reset_KeepsTransaction(s) ==
    [s EXCEPT !.User = Nil, !.FromAddr = Nil, !.ToAddr = <<>>]

\* A Reset that also empties the error log.
Reset_ClearsErrors(s) ==
    [s EXCEPT !.User = Nil, !.FromAddr = Nil, !.ToAddr = <<>>, !.transaction = Zero,
              !.Errors = <<>>]

\* Reset (conn.go:71-76); it has no result.
Reset(s) ==
    [s EXCEPT !.User = Nil, !.FromAddr = Nil, !.ToAddr = <<>>, !.transaction = Zero]

\* ----------------------------------------------------------- line decoder
\* The textproto.Conn built at conn.go:44-47: the bufio buffer `buf`, and the
\* io.LimitedReader under it (limited, with N bytes left) when MaxSize > 0.
\* `gen` and `max` are history: gen is 1 for the first decoder constructed on
\* a Conn, 2 for the second, and so on; max is what MaxSize was when this
\* decoder was constructed.
NewDecoder(s) ==
    [buf     |-> <<>>,
     limited |-> s.MaxSize > 0,
     N       |-> IF s.MaxSize > 0 THEN s.MaxSize ELSE 0,
     gen     |-> IF s.textProto = <<>> THEN 1 ELSE s.textProto[1].gen + 1,
     max     |-> s.MaxSize]

\* A Once that never remembers that its function ran.
OnceDone_Never(s) == FALSE

\* c.asTextProto is the sync.Once: `done` once its function has run, `m` the task
\* that is inside Do running it.
OnceDone(s) == s.asTextProto.done

\* A tp() that applies the current MaxSize to the decoder on every call.
tp_FollowsMaxSize(s) ==
    IF OnceDone(s)
    THEN IF s.MaxSize = s.textProto[1].max THEN s
         ELSE [s EXCEPT !.textProto = << [s.textProto[1] EXCEPT
                                            !.limited = s.MaxSize > 0,
                                            !.N = s.MaxSize] >>]
    ELSE [s EXCEPT !.asTextProto.done = TRUE, !.textProto = <<NewDecoder(s)>>]

\* tp (conn.go:42-50): sync.Once runs the construction on the first call only.
\* c.textProto is a pointer: <<>> is nil, <<d>> points to decoder d.
tp(s) ==
    IF OnceDone(s)
    THEN s
    ELSE [s EXCEPT !.asTextProto.done = TRUE, !.textProto = <<NewDecoder(s)>>]

\* bufio.Reader.ReadLine drops the final "\n" and a "\r" right before it.
StripEOL(l) ==
    IF l # <<>> /\ l[Len(l)] = "LF"
    THEN IF Len(l) > 1 /\ l[Len(l) - 1] = "CR" THEN Take(l, Len(l) - 2)
         ELSE Take(l, Len(l) - 1)
    ELSE l

\* One textproto ReadLine (conn.go:81, 99, and each round of ReadDotLines at
\* conn.go:105) on decoder d with `wire` unread on the transport: the set of
\* possible outcomes.  The buffer is refilled, in chunks of any size, until it
\* holds a "\n" or the source ends: the io.LimitedReader answers io.EOF once N
\* is 0, without a call of the transport, and the transport answers `atEnd`
\* when it has no more bytes (io.EOF when the peer has closed).  bufio hands
\* out a final unterminated line without an error.
\*   line: the line returned     err: the error returned
\*   raw:  the bytes taken out of the buffer
\*   pulled: how many bytes were read from the transport
\*   cap:  the LimitedReader refused bytes that the transport still had
\*   reads: the results of the transport's Read, in order (the reads that
\*          fetch the bytes of one line shown as one)
TPReadLine(d, wire, atEnd) ==
    LET n == IndexOf(d.buf, "LF") IN
    IF n > 0
    THEN { [line |-> StripEOL(Take(d.buf, n)), err |-> Nil, raw |-> Take(d.buf, n),
            d |-> [d EXCEPT !.buf = Drop(d.buf, n)], wire |-> wire,
            pulled |-> 0, cap |-> FALSE, reads |-> <<>>] }
    ELSE
      LET avail == IF d.limited THEN Min(d.N, Len(wire)) ELSE Len(wire)
          m     == IndexOf(Take(wire, avail), "LF")
      IN
      IF m > 0
      THEN { LET all == d.buf \o Take(wire, k)
                 e   == Len(d.buf) + m
             IN  [line |-> StripEOL(Take(all, e)), err |-> Nil, raw |-> Take(all, e),
                  d    |-> [d EXCEPT !.buf = Drop(all, e),
                                     !.N = IF d.limited THEN d.N - k ELSE 0],
                  wire |-> Drop(wire, k), pulled |-> k, cap |-> FALSE,
                  reads |-> << [n |-> k, err |-> Nil] >>]
             : k \in m..avail }
      ELSE
        LET all == d.buf \o Take(wire, avail)
            d2  == [d EXCEPT !.buf = <<>>, !.N = IF d.limited THEN d.N - avail ELSE 0]
            cut == d.limited /\ d.N - avail = 0 /\ Len(wire) > avail
            dry == d.limited /\ d.N - avail = 0
            src == IF dry THEN EOF ELSE atEnd
        IN { [line |-> all, err |-> IF all = <<>> THEN src ELSE Nil, raw |-> all,
              d |-> d2, wire |-> Drop(wire, avail), pulled |-> avail, cap |-> cut,
              reads |-> (IF avail > 0 THEN << [n |-> avail, err |-> Nil] >> ELSE <<>>)
                        \o (IF dry THEN <<>> ELSE << [n |-> 0, err |-> atEnd] >>)] }

\* textproto ReadDotLines (called at conn.go:105): lines up to a line that is a
\* single "."; one leading "." is cut from the others; io.EOF becomes
\* io.ErrUnexpectedEOF.  The lines read before an error are returned with it.
\* `sofar` is what the rounds before this one did: lines, raw, pulled, cap, reads.
RECURSIVE ReadDotLines(_, _, _, _)
ReadDotLines(d, wire, atEnd, sofar) ==
    UNION { LET now == [lines  |-> sofar.lines,
                        raw    |-> sofar.raw \o o.raw,
                        pulled |-> sofar.pulled + o.pulled,
                        cap    |-> sofar.cap \/ o.cap,
                        reads  |-> sofar.reads \o o.reads]
                end(err) == [lines |-> now.lines, err |-> err, raw |-> now.raw,
                             d |-> o.d, wire |-> o.wire,
                             pulled |-> now.pulled, cap |-> now.cap,
                             reads |-> now.reads]
            IN
            IF o.err # Nil
            THEN { end(IF o.err = EOF THEN ErrUnexpectedEOF ELSE o.err) }
            ELSE IF o.line # <<>> /\ o.line[1] = "."
            THEN IF Len(o.line) = 1
                 THEN { end(Nil) }
                 ELSE ReadDotLines(o.d, o.wire, atEnd,
                                   [now EXCEPT !.lines = Append(@, Tail(o.line))])
            ELSE ReadDotLines(o.d, o.wire, atEnd,
                              [now EXCEPT !.lines = Append(@, o.line)])
          : o \in TPReadLine(d, wire, atEnd) }

NoLines == [lines |-> <<>>, raw |-> <<>>, pulled |-> 0, cap |-> FALSE, reads |-> <<>>]

\* strings.ToUpper, on the letters the model's lines use
ToUpper(l) ==
    [i \in 1..Len(l) |-> CASE l[i] = "m" -> "M" [] l[i] = "q" -> "Q"
                           [] l[i] = "x" -> "X" [] l[i] = "d" -> "D"
                           [] l[i] = "z" -> "Z" [] OTHER -> l[i]]

\* strings.SplitN(line, " ", 2) (conn.go:83)
SplitN2(l) ==
    LET i == IndexOf(l, " ") IN
    IF i = 0 THEN <<l>> ELSE <<Take(l, i - 1), Drop(l, i)>>

RECURSIVE Join(_, _)
\* strings.Join (conn.go:106)
Join(ls, sep) ==
    IF ls = <<>> THEN <<>>
    ELSE IF Len(ls) = 1 THEN ls[1]
    ELSE ls[1] \o <<sep>> \o Join(Tail(ls), sep)

\* ------------------------------------------------------------ environment
\* What the peer may send: up to MaxLines lines, each ended by CR LF, and then
\* possibly an unterminated tail before it closes the stream.
Lines == { <<"q">>, <<"m", " ", "F", " ", "x">>, <<".", ".", "d">>, <<".">> }
Tails == { <<>>, <<"z">> }

RECURSIVE SeqsUpTo(_, _)
SeqsUpTo(S, n) ==
    IF n = 0 THEN { <<>> }
    ELSE LET shorter == SeqsUpTo(S, n - 1)
         IN shorter \cup { Append(q, x) : q \in { r \in shorter : Len(r) = n - 1 }, x \in S }

Wire(ls, tail) == Flatten([i \in 1..Len(ls) |-> ls[i] \o <<"CR", "LF">>]) \o tail

Streams == { Wire(ls, t) : ls \in SeqsUpTo(Lines, MaxLines), t \in Tails }

ShortStreams ==
    { Wire(ls, t) : ls \in SeqsUpTo({ <<"q">>, <<".">> }, MaxLines), t \in Tails }

\* --------------------------------------------------------------- initially
\* A Conn as the server builds it: zero-valued session fields, configuration
\* set by the caller, nothing read yet.
NewConn(max, rt, wt) ==
    [IsTLS |-> FALSE, Errors |-> <<>>, User |-> Nil, FromAddr |-> Nil, ToAddr |-> <<>>,
     MaxSize |-> max, ReadTimeout |-> rt, WriteTimeout |-> wt,
     lock |-> "unlocked", transaction |-> Zero,
     asTextProto |-> [done |-> FALSE, m |-> "unlocked"], textProto |-> <<>>]

\* ---------------------------------------------------------- the transport
\* One call of the embedded net.Conn (conn.go:19) as the operation made it:
\* `arg` is the deadline passed to SetReadDeadline or SetWriteDeadline, `dl` the
\* deadline in force for a Read or a Write, `n` the bytes moved, `data` the
\* bytes handed to Write, `err` the result.
Call(call, arg, dl, n, data, err) ==
    [call |-> call, arg |-> arg, dl |-> dl, n |-> n, data |-> data, err |-> err]

\* A transport that was created as the server accepts a connection.
NewNet(w) == [wire |-> w, closed |-> FALSE, rdl |-> 0, wdl |-> 0]

\* What Read answers when the transport has no more bytes.
TransportEnd(n) == IF n.closed THEN ErrClosed ELSE EOF

\* net.Conn.SetReadDeadline, called at conn.go:80, 98, 104
SetReadDeadline(n, t) ==
    IF n.closed
    THEN [net |-> n, call |-> Call("SetReadDeadline", t, 0, 0, <<>>, ErrClosed)]
    ELSE [net |-> [n EXCEPT !.rdl = t], call |-> Call("SetReadDeadline", t, 0, 0, <<>>, Nil)]

\* net.Conn.SetWriteDeadline, called at conn.go:111, 118
SetWriteDeadline(n, t) ==
    IF n.closed
    THEN [net |-> n, call |-> Call("SetWriteDeadline", t, 0, 0, <<>>, ErrClosed)]
    ELSE [net |-> [n EXCEPT !.wdl = t], call |-> Call("SetWriteDeadline", t, 0, 0, <<>>, Nil)]

\* net.Conn.Write, called at conn.go:112, 119
Write(n, data) ==
    IF n.closed
    THEN [err |-> ErrClosed, call |-> Call("Write", 0, n.wdl, 0, data, ErrClosed)]
    ELSE [err |-> Nil, call |-> Call("Write", 0, n.wdl, Len(data), data, Nil)]

\* The calls of net.Conn.Read that a decoder outcome reports, made on n.
ReadCalls(reads, n) ==
    [i \in 1..Len(reads) |-> Call("Read", 0, n.rdl, reads[i].n, <<>>, reads[i].err)]

\* A deadline set once, when the session began.
ReadDeadline_AtStart(s, t) == s.ReadTimeout

\* time.Now().Add(c.ReadTimeout) (conn.go:80, 98, 104)
ReadDeadline(s, t) == t + s.ReadTimeout

\* time.Now().Add(c.WriteTimeout) (conn.go:111, 118)
WriteDeadline(s, t) == t + s.WriteTimeout

\* What a call returned.  The rest is history: `pulled` and `cap` as in
\* TPReadLine; `calls` the transport calls the call made, in order; `at`,
\* `prev` and `open` are the time, `last.op`, and whether the transaction token
\* was non-zero, when the call was made.
Returned(op, err, val, rd) ==
    [op |-> op, err |-> err, val |-> val, pulled |-> rd.pulled, cap |-> rd.cap,
     calls |-> rd.calls, at |-> clock, prev |-> last.op, open |-> c.transaction # Zero]

NoRead == [pulled |-> 0, cap |-> FALSE, calls |-> <<>>]

ReadOps == {"ReadSMTP", "ReadLine", "ReadData"}

Tasks == {"io", "sup"}
Idle  == [pc |-> "idle", op |-> "none", from |-> Nil, now |-> Zero, pend |-> {}, err |-> Nil,
          calls |-> <<>>]

\* The failed transaction calls so far, with this one.
Seen(op, err) == IF err = Nil THEN seen ELSE seen \cup {<<op, err>>}

\* A read has failed for the size cap.
Starved == \E p \in seen : p[1] = "read"

\* `seen` with the first read that failed for the size cap: "read", paired
\* with what last.op was then.
SeenRead(err, cap) ==
    IF err # Nil /\ cap /\ ~Starved THEN seen \cup {<<"read", last.op>>} ELSE seen

InitFrom(conns, streams, widths) ==
    /\ c \in conns
    /\ \E w \in streams : net = NewNet(w) /\ sent = w
    /\ intBits \in widths
    /\ clock = 0
    /\ last = [op |-> "none", from |-> Nil]
    /\ ret = [op |-> "new", err |-> Nil, val |-> <<>>, pulled |-> 0, cap |-> FALSE,
              calls |-> <<>>, at |-> 0, prev |-> "none", open |-> FALSE]
    /\ seen = {}
    /\ got = <<>>
    /\ task = [t \in Tasks |-> Idle]
    /\ pre = NewConn(0, 30, 30)

InitWith(streams, sizes, widths) ==
    InitFrom({ NewConn(max, rt, wt) : max \in sizes, rt \in Timeouts, wt \in Timeouts },
             streams, widths)

\* ------------------------------------------------------ transaction calls
CallStartTX ==
    \E from \in Addrs \cup {Nil}, now \in ClockReadings :
        LET r == StartTX(c, from, now, intBits) IN
        /\ c' = r.c
        /\ ret' = Returned("StartTX", r.err, <<>>, NoRead)
        /\ last' = IF r.err = Nil THEN [op |-> "StartTX", from |-> from] ELSE last
        /\ seen' = Seen("StartTX", r.err)
        /\ UNCHANGED <<net, intBits, clock, sent, got, task, pre>>

CallEndTX ==
    LET r == EndTX(c) IN
    /\ c' = r.c
    /\ ret' = Returned("EndTX", r.err, <<>>, NoRead)
    /\ last' = IF r.err = Nil THEN [op |-> "EndTX", from |-> last.from] ELSE last
    /\ seen' = Seen("EndTX", r.err)
    /\ UNCHANGED <<net, intBits, clock, sent, got, task, pre>>

CallReset ==
    /\ c' = Reset(c)
    /\ ret' = Returned("Reset", Nil, <<>>, NoRead)
    /\ last' = [op |-> "Reset", from |-> Nil]
    /\ UNCHANGED <<net, intBits, clock, seen, sent, got, task, pre>>

\* -------------------------------------- the dispatcher's own field writes
\* The session fields are exported (conn.go:22-31): the caller sets them.
Caller(s) ==
    /\ c' = s
    /\ ret' = Returned("caller", Nil, <<>>, NoRead)
    /\ UNCHANGED <<net, intBits, clock, last, seen, sent, got, task, pre>>

SetUser == \E u \in Users : c.User # u /\ Caller([c EXCEPT !.User = u])

AppendRcpt ==
    \E a \in Addrs : Len(c.ToAddr) < MaxRcpt /\ Caller([c EXCEPT !.ToAddr = Append(@, a)])

AppendError ==
    Len(c.Errors) < MaxErrors /\ Caller([c EXCEPT !.Errors = Append(@, ErrTransaction)])

SetTLS == ~c.IsTLS /\ Caller([c EXCEPT !.IsTLS = TRUE])

SetMaxSize == \E n \in {0, MaxCap} : n # c.MaxSize /\ Caller([c EXCEPT !.MaxSize = n])

\* ------------------------------------------------------------------ reads
\* The end of each read: the decoder and the transport as outcome o leaves
\* them, and the result handed to the caller.  dl is what SetReadDeadline
\* did at the start of the read; its error is dropped.
Deliver(op, s, dl, o, err, val) ==
    /\ c' = [s EXCEPT !.textProto = <<o.d>>]
    /\ net' = [dl.net EXCEPT !.wire = o.wire]
    /\ got' = got \o o.raw
    /\ ret' = Returned(op, err, val,
                        [pulled |-> o.pulled, cap |-> o.cap,
                         calls  |-> <<dl.call>> \o ReadCalls(o.reads, dl.net)])
    /\ seen' = SeenRead(err, o.cap)
    /\ UNCHANGED <<intBits, clock, last, sent, pre>>

\* ReadSMTP (conn.go:81-93) on the decoder of s, which tp() returned
DecodeSMTP(s, dl) ==
    \E o \in TPReadLine(s.textProto[1], dl.net.wire, TransportEnd(dl.net)) :
        IF o.err = Nil
        THEN LET command == SplitN2(o.line)
                 verb    == ToUpper(command[1])
                 args    == IF Len(command) > 1 THEN command[2] ELSE <<>>
             IN Deliver("ReadSMTP", s, dl, o, Nil, <<verb, args>>)
        ELSE Deliver("ReadSMTP", s, dl, o, o.err, << <<>>, <<>> >>)

\* ReadLine (conn.go:99) on the decoder of s
DecodeLine(s, dl) ==
    \E o \in TPReadLine(s.textProto[1], dl.net.wire, TransportEnd(dl.net)) :
        Deliver("ReadLine", s, dl, o, o.err, <<o.line>>)

\* ReadData (conn.go:105-106) on the decoder of s
DecodeData(s, dl) ==
    \E o \in ReadDotLines(s.textProto[1], dl.net.wire, TransportEnd(dl.net), NoLines) :
        Deliver("ReadData", s, dl, o, o.err, <<Join(o.lines, "LF")>>)

\* ReadSMTP (conn.go:79-94), ReadLine (conn.go:97-100), ReadData
\* (conn.go:103-107), each called and run to its end by the one I/O task.
ReadSMTP ==
    DecodeSMTP(tp(c), SetReadDeadline(net, ReadDeadline(c, clock))) /\ UNCHANGED task

ReadLine ==
    DecodeLine(tp(c), SetReadDeadline(net, ReadDeadline(c, clock))) /\ UNCHANGED task

ReadData ==
    DecodeData(tp(c), SetReadDeadline(net, ReadDeadline(c, clock))) /\ UNCHANGED task

\* ----------------------------------------------------------------- writes
\* The %v of an int that is not negative (fmt.Sprintf at conn.go:112)
Digit(k) ==
    CASE k = 0 -> "0" [] k = 1 -> "1" [] k = 2 -> "2" [] k = 3 -> "3" [] k = 4 -> "4"
      [] k = 5 -> "5" [] k = 6 -> "6" [] k = 7 -> "7" [] k = 8 -> "8" [] k = 9 -> "9"

RECURSIVE Itoa(_)
Itoa(k) == IF k < 10 THEN << Digit(k) >> ELSE Append(Itoa(k \div 10), Digit(k % 10))

CRLF == <<"CR", "LF">>
OK   == <<"O", "K">>

\* A reply line that is ended by a bare newline.
ReplyLine_BareLF(code, message) == Itoa(code) \o <<" ">> \o message \o <<"LF">>

\* fmt.Sprintf("%v %v", code, message) + "\r\n" (conn.go:112)
ReplyLine(code, message) == Itoa(code) \o <<" ">> \o message \o CRLF

\* fmt.Sprintf("250-%v", message) + "\r\n" (conn.go:119)
EHLOLine(message) == <<"2", "5", "0", "-">> \o message \o CRLF

\* WriteSMTP (conn.go:110-114) on transport n at time t: the transport it
\* leaves, the error it returns and the transport calls it made.  The error
\* of SetWriteDeadline is dropped.
WriteSMTP(n, s, t, code, message) ==
    LET dl == SetWriteDeadline(n, WriteDeadline(s, t))
        w  == Write(dl.net, ReplyLine(code, message))
    IN [net |-> dl.net, err |-> w.err, calls |-> <<dl.call, w.call>>]

\* WriteEHLO (conn.go:117-121)
WriteEHLO(n, s, t, message) ==
    LET dl == SetWriteDeadline(n, WriteDeadline(s, t))
        w  == Write(dl.net, EHLOLine(message))
    IN [net |-> dl.net, err |-> w.err, calls |-> <<dl.call, w.call>>]

\* WriteOK (conn.go:124-126)
WriteOK(n, s, t) == WriteSMTP(n, s, t, 250, OK)

\* What the caller writes
Codes    == {250, 354, 7}
Messages == { OK, <<>>, <<"h", " ", "x">> }

\* The end of a write with outcome r; for a write, ret.val is history: the
\* arguments of the call.
Wrote(op, args, r) ==
    /\ net' = r.net
    /\ ret' = Returned(op, r.err, args, [pulled |-> 0, cap |-> FALSE, calls |-> r.calls])
    /\ UNCHANGED <<c, intBits, clock, last, seen, sent, got, pre>>

\* WriteSMTP, WriteEHLO and WriteOK, each called and run to its end by the
\* one I/O task.
CallWriteSMTP ==
    \E code \in Codes, message \in Messages :
        /\ Wrote("WriteSMTP", <<code, message>>, WriteSMTP(net, c, clock, code, message))
        /\ UNCHANGED task

CallWriteEHLO ==
    \E message \in Messages :
        /\ Wrote("WriteEHLO", <<message>>, WriteEHLO(net, c, clock, message))
        /\ UNCHANGED task

CallWriteOK ==
    /\ Wrote("WriteOK", <<>>, WriteOK(net, c, clock))
    /\ UNCHANGED task

WriteOps == {"WriteSMTP", "WriteEHLO", "WriteOK"}

\* ------------------------------------------------------- time and closing
\* Time passes between two calls.
Tick ==
    /\ clock < MaxClock
    /\ clock' = clock + 1
    /\ UNCHANGED <<c, net, intBits, ret, last, seen, sent, got, task, pre>>

\* The embedded net.Conn's Close (conn.go:19), called by the server when it
\* shuts the session down: what the peer sent and nobody read is dropped, and
\* every later call of the transport fails.
Close ==
    /\ ~net.closed
    /\ net' = [net EXCEPT !.closed = TRUE, !.wire = <<>>]
    /\ ret' = Returned("Close", Nil, <<>>, NoRead)
    /\ UNCHANGED <<c, intBits, clock, last, seen, sent, got, task, pre>>

\* --------------------------------------------------------- specifications
\* Spec: one task drives the session: transaction calls, the dispatcher's
\* field writes, and reads of a short command stream.
Greeting == Wire(<< <<"q">>, <<".">> >>, <<>>)

Init == InitWith({Greeting}, {0, MaxCap}, {32, 64})

Next ==
    \/ CallStartTX \/ CallEndTX \/ CallReset
    \/ SetUser \/ AppendRcpt \/ AppendError \/ SetTLS \/ SetMaxSize
    \/ ReadSMTP \/ ReadLine \/ ReadData

Spec == Init /\ [][Next]_vars

\* SpecIO: one task reads whatever the peer may send, under every size cap,
\* and the session is reset and reconfigured in between.
InitIO == InitWith(Streams, 0..MaxCap, {64})

NextIO ==
    \/ ReadSMTP \/ ReadLine \/ ReadData
    \/ CallReset \/ SetMaxSize

SpecIO == InitIO /\ [][NextIO]_vars

\* SpecNet: one task reads and writes while time passes, until and after the
\* server closes the connection.  The peer sends a command and the end of a
\* data block, or a command and a piece of a line.
NetStreams == { Greeting, Wire(<< <<"q">> >>, <<"z">>) }

InitNet == InitFrom({ NewConn(0, 30, 60) }, NetStreams, {64})

NextNet ==
    \/ ReadSMTP \/ ReadLine \/ ReadData
    \/ CallWriteSMTP \/ CallWriteEHLO \/ CallWriteOK
    \/ Tick \/ Close

SpecNet == InitNet /\ [][NextNet]_vars

\* SpecBudget: one task reads under a size cap that the input exceeds, and
\* calls the transaction operations, Reset and the write operations in between.
BudgetCaps == {2, 4}

BudgetStreams ==
    { Wire(ls, t) : ls \in SeqsUpTo({ <<"q">>, <<".">> }, 2), t \in Tails }

InitBudget == InitWith(BudgetStreams, BudgetCaps, {64})

NextBudget ==
    \/ ReadSMTP \/ ReadLine \/ ReadData
    \/ CallStartTX \/ CallEndTX \/ CallReset
    \/ CallWriteSMTP \/ CallWriteEHLO \/ CallWriteOK

SpecBudget == InitBudget /\ [][NextBudget]_vars

\* ------------------------------------------- two tasks, reads step by step
\* A read as the steps another task can come between: the call (and its
\* SetReadDeadline), c.asTextProto.Do inside tp(), the function Do runs, and
\* the decoding.  Decoding steps are taken one at a time: the decoder is driven
\* by one task at a time, only its construction is raced for.
AllIdle == \A t \in Tasks : task[t].pc = "idle"

Goto(t, pc) == task' = [task EXCEPT ![t].pc = pc]

\* conn.go:80, 98, 104: the call, up to tp()
BeginRead(t) ==
    /\ task[t].pc = "idle"
    /\ LET dl == SetReadDeadline(net, ReadDeadline(c, clock)) IN
       /\ net' = dl.net
       /\ \E op \in ReadOps :
             task' = [task EXCEPT ![t] = [Idle EXCEPT !.pc = "tp", !.op = op,
                                                      !.calls = <<dl.call>>]]
    /\ UNCHANGED <<c, intBits, clock, ret, last, seen, sent, got, pre>>

\* conn.go:43: sync.Once.Do returns at once when the function has run, runs it
\* when no task is running it, and otherwise waits for that task to finish.
OnceDo(t) ==
    /\ task[t].pc = "tp"
    /\ IF OnceDone(c)
       THEN Goto(t, "read") /\ c' = c
       ELSE /\ c.asTextProto.m = "unlocked"
            /\ c' = [c EXCEPT !.asTextProto.m = t]
            /\ Goto(t, "f")
    /\ UNCHANGED <<net, intBits, clock, ret, last, seen, sent, got, pre>>

\* conn.go:44-48: the function run by Do, and Do's return
OnceRun(t) ==
    /\ task[t].pc = "f"
    /\ c' = [c EXCEPT !.textProto = <<NewDecoder(c)>>,
                      !.asTextProto = [done |-> TRUE, m |-> "unlocked"]]
    /\ Goto(t, "read")
    /\ UNCHANGED <<net, intBits, clock, ret, last, seen, sent, got, pre>>

\* conn.go:81-93, 99, 105-106: the rest of the read, on the decoder tp() returned
Decode(t) ==
    /\ task[t].pc = "read"
    /\ LET dl == [net |-> net, call |-> task[t].calls[1]] IN
       \/ task[t].op = "ReadSMTP" /\ DecodeSMTP(c, dl)
       \/ task[t].op = "ReadLine" /\ DecodeLine(c, dl)
       \/ task[t].op = "ReadData" /\ DecodeData(c, dl)
    /\ task' = [task EXCEPT ![t] = Idle]

\* ------------------------------- two tasks, transaction calls step by step
\* StartTX, EndTX and Reset take no lock (c.lock is never locked), so a call of
\* the supervising task runs between the reads and writes of the I/O task's
\* call.  The stores of one call are not ordered for the other task: each
\* pending store of task[t].pend takes effect at some later step, in any order.
Stores(op) ==
    CASE op = "StartTX" -> {"transaction", "FromAddr"}
      [] op = "EndTX"   -> {"transaction"}
      [] op = "Reset"   -> {"User", "FromAddr", "ToAddr", "transaction"}

\* what the call of task record k stores in field f
Stored(k, f, bits) ==
    CASE f = "transaction" -> IF k.op = "StartTX" THEN ToInt(k.now, bits) ELSE Zero
      [] f = "FromAddr"    -> IF k.op = "StartTX" THEN k.from ELSE Nil
      [] f = "User"        -> Nil
      [] f = "ToAddr"      -> <<>>

\* The I/O task calls StartTX or EndTX while the supervising task calls Reset.
Fork ==
    /\ AllIdle
    /\ pre' = c
    /\ \E op \in {"StartTX", "EndTX"}, from \in Addrs \cup {Nil}, now \in ClockReadings :
          /\ op = "EndTX" => (from = Nil /\ now = Zero)
          /\ op = "StartTX" => now # Zero
          /\ task' = [io  |-> [Idle EXCEPT !.pc = "start", !.op = op,
                                           !.from = from, !.now = now],
                      sup |-> [Idle EXCEPT !.pc = "start", !.op = "Reset"]]
    /\ UNCHANGED <<c, net, intBits, clock, ret, last, seen, sent, got>>

\* conn.go:54-56 and 64-66: the check of the token; Reset (conn.go:71) has none
Check(t) ==
    /\ task[t].pc = "start"
    /\ LET k == task[t]
           refused == \/ k.op = "StartTX" /\ c.transaction # Zero
                      \/ k.op = "EndTX" /\ c.transaction = Zero
       IN task' = [task EXCEPT ![t] =
                     IF refused THEN [k EXCEPT !.pc = "done", !.err = ErrTransaction]
                     ELSE [k EXCEPT !.pc = "write", !.pend = Stores(k.op)]]
    /\ UNCHANGED <<c, net, intBits, clock, ret, last, seen, sent, got, pre>>

\* conn.go:57-58, 67, 72-75: one store of the call
Store(t) ==
    /\ task[t].pc = "write"
    /\ \E f \in task[t].pend :
          /\ c' = [c EXCEPT ![f] = Stored(task[t], f, intBits)]
          /\ task' = [task EXCEPT ![t].pend = @ \ {f},
                                  ![t].pc = IF task[t].pend = {f} THEN "done" ELSE "write"]
    /\ UNCHANGED <<net, intBits, clock, ret, last, seen, sent, got, pre>>

\* both calls have returned
Finish ==
    /\ \A t \in Tasks : task[t].pc = "done"
    /\ task' = [t \in Tasks |-> Idle]
    /\ ret' = Returned(task["io"].op, task["io"].err, <<>>, NoRead)
    /\ UNCHANGED <<c, net, intBits, clock, last, seen, sent, got, pre>>

\* SpecOnce: two tasks read, each read in steps; their first reads may race.

InitOnce == InitWith(ShortStreams, {0, MaxCap}, {64})

NextOnce == \E t \in Tasks : BeginRead(t) \/ OnceDo(t) \/ OnceRun(t) \/ Decode(t)

SpecOnce == InitOnce /\ [][NextOnce]_vars

\* SpecRace: the supervising task resets the session while the I/O task starts
\* or ends a transaction; between such rounds the dispatcher sets fields.
InitRace == InitWith({<<>>}, {0}, {64})

NextRace ==
    \/ Fork
    \/ \E t \in Tasks : Check(t) \/ Store(t)
    \/ Finish
    \/ AllIdle /\ (SetUser \/ AppendRcpt)

SpecRace == InitRace /\ [][NextRace]_vars

\* ================================================================= claims
\* C1: an EndTX call succeeds if and only if the most recent preceding call
\* among {successful StartTX, successful EndTX, Reset} is a successful StartTX;
\* otherwise, and on a fresh Conn, it returns an error.
C1_EndTXIffStarted ==
    ret.op = "EndTX" => (ret.err = Nil <=> ret.prev = "StartTX")

\* C2: a StartTX called after a successful StartTX, with no successful EndTX and
\* no Reset in between, fails with the transaction error and changes no field.
C2_SecondStartTXFails ==
    [][ (ret'.op = "StartTX" /\ last.op = "StartTX")
            => (ret'.err = ErrTransaction /\ c' = c /\ last'.from = last.from) ]_vars

\* C3: Reset can be called in every reachable state, and right after it no
\* transaction is open, User and FromAddr are absent and ToAddr is empty; a
\* StartTX that follows a Reset succeeds and an EndTX that follows it fails.
C3_ResetToIdle ==
    /\ ENABLED CallReset
    /\ ret.op = "Reset" =>
          /\ ret.err = Nil
          /\ c.transaction = Zero /\ c.User = Nil /\ c.FromAddr = Nil /\ c.ToAddr = <<>>
    /\ (ret.op = "StartTX" /\ ret.prev = "Reset") => ret.err = Nil
    /\ (ret.op = "EndTX" /\ ret.prev = "Reset") => ret.err = ErrTransaction

\* Reset has run on an open transaction.
C3_Witness ==
    ret.op = "Reset" /\ ret.prev = "StartTX" /\ ret.open /\ c.transaction = Zero

\* C4 as stated: the transaction token is 0 if and only if FromAddr is absent.
C4_TokenIffFrom ==
    (c.transaction = Zero) <=> (c.FromAddr = Nil)

\* C4 amended: on a fresh Conn and after Reset the token is 0 and FromAddr is
\* absent; from a successful StartTX(from) on, through EndTX and until the next
\* Reset, FromAddr is that `from` (absent exactly when `from` was); and a
\* non-zero token is only ever left by a successful StartTX.
C4_FromFollowsStartTX ==
    /\ last.op \in {"none", "Reset"} => (c.transaction = Zero /\ c.FromAddr = Nil)
    /\ last.op \in {"StartTX", "EndTX"} => c.FromAddr = last.from
    /\ c.transaction # Zero => last.op = "StartTX"

\* A transaction has been ended and its sender is still there.
C4_Witness ==
    ret.op = "EndTX" /\ ret.err = Nil /\ c.transaction = Zero /\ c.FromAddr # Nil

\* C8: Reset leaves Errors, IsTLS, MaxSize, ReadTimeout, WriteTimeout, the
\* transport and the line decoder as they were.
C8_ResetFrame ==
    [][ ret'.op = "Reset" =>
          /\ c'.Errors = c.Errors /\ c'.IsTLS = c.IsTLS /\ c'.MaxSize = c.MaxSize
          /\ c'.ReadTimeout = c.ReadTimeout /\ c'.WriteTimeout = c.WriteTimeout
          /\ c'.asTextProto = c.asTextProto /\ c'.textProto = c.textProto
          /\ net' = net ]_vars

\* Reset has run with errors logged, TLS on, a size cap set and a decoder that
\* holds buffered bytes.
C8_Witness ==
    /\ ret.op = "Reset" /\ ret.prev = "StartTX"
    /\ c.Errors # <<>> /\ c.IsTLS /\ c.MaxSize > 0
    /\ c.textProto # <<>> /\ c.textProto[1].buf # <<>>

\* C9: a successful EndTX changes the transaction token only; afterwards no
\* call but Reset and a successful StartTX changes FromAddr, and no call but
\* Reset changes ToAddr or User (the dispatcher's own field writes aside).
C9_EndTXFrame ==
    [][ /\ (ret'.op = "EndTX" /\ ret'.err = Nil)
            => (c' = [c EXCEPT !.transaction = Zero] /\ net' = net)
        /\ c'.FromAddr # c.FromAddr
            => (ret'.op = "Reset" \/ (ret'.op = "StartTX" /\ ret'.err = Nil))
        /\ (c'.ToAddr # c.ToAddr \/ c'.User # c.User)
            => ret'.op \in {"Reset", "caller"} ]_vars

\* A transaction with a sender, a recipient and a user has been ended.
C9_Witness ==
    /\ ret.op = "EndTX" /\ ret.err = Nil
    /\ c.FromAddr # Nil /\ c.ToAddr # <<>> /\ c.User # Nil

\* C10: the error of an EndTX with no transaction open differs from the error
\* of a StartTX on an open transaction, and the failing EndTX changes no field.
C10_DistinctErrors ==
    (ret.op = "EndTX" /\ ret.err # Nil) =>
        \A p \in seen : p[1] = "StartTX" => p[2] # ret.err

\* C5: StartTX, EndTX and Reset are atomic with respect to each other: when
\* Reset runs concurrently with the I/O task's StartTX or EndTX, the state and
\* the result after both have returned are those of one of the two sequential
\* orders of the two calls.
C5_Serializable ==
    (\A t \in Tasks : task[t].pc = "done") =>
        LET k      == task["io"]
            Run(s) == IF k.op = "StartTX" THEN StartTX(s, k.from, k.now, intBits)
                      ELSE EndTX(s)
            first  == Run(pre)
            second == Run(Reset(pre))
        IN \/ c = Reset(first.c) /\ k.err = first.err
           \/ c = second.c /\ k.err = second.err

\* C6: the line decoder is constructed at most once per Conn, also when two
\* first reads race, and every read works on its buffer: what the reads have
\* taken, what the decoder holds and what is still on the transport are, in
\* this order, exactly what the peer sent.
C6_OneDecoder ==
    /\ c.textProto = <<>> => (got = <<>> /\ net.wire = sent)
    /\ c.textProto # <<>> =>
          /\ c.textProto[1].gen = 1
          /\ got \o c.textProto[1].buf \o net.wire = sent

\* A read has returned a line out of bytes that an earlier read had pulled
\* from the transport, after two first reads raced for the construction.
C6_Witness ==
    /\ ret.op \in ReadOps /\ ret.err = Nil /\ ret.pulled = 0 /\ ret.val[1] # <<>>
    /\ Len(got) < Len(sent)
    /\ \E t \in Tasks : task[t].pc = "read"

\* C7: a read that needs more bytes than the size cap allows fails with an
\* error that differs from the errors a closed connection gives, and a read
\* fails for the cap only then.
C7_SizeExceeded ==
    ret.op \in ReadOps =>
        /\ ret.cap => ret.err \notin {Nil, EOF, ErrUnexpectedEOF}
        /\ (ret.err # Nil /\ ~ret.cap) => net.wire = <<>>

\* C17: a successful StartTX on a Conn with no transaction open leaves a
\* non-zero token, whatever the clock reads and however wide the platform's
\* int is; so right after it a second StartTX fails and an EndTX succeeds.
C17_TokenNonZero ==
    (ret.op = "StartTX" /\ ret.err = Nil) => c.transaction # Zero

\* C19: a successful StartTX writes the token and FromAddr only: ToAddr, User
\* and every other field stay as they were, so a transaction that is started
\* after an EndTX, with no Reset in between, still holds the recipients of the
\* transaction before it.
C19_StartTXFrame ==
    [][ (ret'.op = "StartTX" /\ ret'.err = Nil)
            => /\ c' = [c EXCEPT !.transaction = c'.transaction, !.FromAddr = c'.FromAddr]
               /\ net' = net ]_vars

\* A second transaction has been started right after the first one was ended,
\* and the recipient and the user of the first are still there.
C19_Witness ==
    /\ ret.op = "StartTX" /\ ret.err = Nil /\ ret.prev = "EndTX"
    /\ c.ToAddr # <<>> /\ c.User # Nil

\* C16: the size cap in force is the value MaxSize had when the first read
\* constructed the line decoder: the reads are capped exactly when that value
\* was positive, and the bytes they can still take from the transport are that
\* value less the bytes taken so far, whatever is assigned to MaxSize later
\* (0 to positive, or positive to 0); an assignment to MaxSize leaves the
\* decoder as it is.
C16_CapFixedAtFirstRead ==
    /\ c.textProto = <<>> => net.wire = sent
    /\ c.textProto # <<>> =>
          LET d == c.textProto[1] IN
          /\ d.limited = (d.max > 0)
          /\ d.limited => d.N = d.max - (Len(sent) - Len(net.wire))
          /\ ~d.limited => d.N = 0
    /\ (ret.op \in ReadOps /\ ret.cap) => c.textProto[1].max > 0
    /\ (ret.op \in ReadOps /\ c.textProto[1].max = 0 /\ ret.err # Nil) => net.wire = <<>>

\* A read was cut short by the cap of the first read after MaxSize had been
\* set to 0.
C16_Witness ==
    /\ ret.op \in ReadOps /\ ret.cap /\ ret.pulled > 0
    /\ c.MaxSize = 0 /\ c.textProto[1].max > 0

\* The bytes the peer sent that no read has returned yet.
Unread == Drop(sent, Len(got))

\* The first line of stream u when it is ended by CR LF, without the CR LF;
\* <<>> in a one-element sequence is an empty line, <<>> is no such line.
FirstLine(u) ==
    LET n == IndexOf(u, "LF") IN
    IF n > 1 /\ u[n - 1] = "CR" THEN << Take(u, n - 2) >> ELSE <<>>

\* C14: when the next line L of the input is ended by CR LF, a ReadSMTP that
\* succeeds returns as verb the upper-cased part of L before its first space
\* (all of L when it has none) and as args all that follows this space, not
\* split further and in its own case (empty when L has no space); a ReadSMTP
\* that fails returns empty verb and args with the error.
C14_VerbAndArgs ==
    [][ ret'.op = "ReadSMTP" =>
          /\ (ret'.err = Nil /\ got' # got /\ FirstLine(Unread) # <<>>) =>
                LET L == FirstLine(Unread)[1]
                    i == IndexOf(L, " ")
                IN ret'.val = << ToUpper(IF i = 0 THEN L ELSE Take(L, i - 1)),
                                 IF i = 0 THEN <<>> ELSE Drop(L, i) >>
          /\ ret'.err # Nil => ret'.val = << <<>>, <<>> >> ]_vars

\* The data block at the head of stream u: the lines ended by CR LF up to the
\* first line that is a single ".", each without one leading "."; `used` is the
\* length of the block with its terminator line, `found` whether u has one.
RECURSIVE DotBlock(_, _)
DotBlock(u, acc) ==
    LET f == FirstLine(u) IN
    IF f = <<>> THEN [found |-> FALSE, lines |-> acc.lines, used |-> acc.used]
    ELSE LET L    == f[1]
             used == acc.used + Len(L) + 2
         IN IF L = <<".">>
            THEN [found |-> TRUE, lines |-> acc.lines, used |-> used]
            ELSE DotBlock(Drop(u, Len(L) + 2),
                          [lines |-> Append(acc.lines,
                                            IF L # <<>> /\ L[1] = "." THEN Tail(L) ELSE L),
                           used  |-> used])

\* C13: a ReadData that succeeds has consumed the lines of the input up to and
\* with the first line that is a single ".", and returns the lines before it,
\* in order, joined by one newline, one leading "." taken off each line that
\* starts with one; what follows the terminator line stays for the next read;
\* when the input ends before a terminator line, ReadData returns an error.
C13_DotBlock ==
    [][ ret'.op = "ReadData" =>
          LET b == DotBlock(Unread, [lines |-> <<>>, used |-> 0]) IN
          /\ (b.found /\ ret'.err = Nil) =>
                /\ ret'.val = << Join(b.lines, "LF") >>
                /\ got' = got \o Take(Unread, b.used)
          /\ ~b.found => ret'.err # Nil ]_vars

\* C18: the read budget of a capped Conn only decreases: no step, and so no
\* StartTX, EndTX, Reset or write, takes the decoder away, lifts its cap or
\* raises the bytes it may still take; and once a read has failed for the cap,
\* every later ReadSMTP, ReadLine and ReadData fails as well.
C18_BudgetOnlyDecreases ==
    [][ /\ c.textProto # <<>> =>
              /\ c'.textProto # <<>>
              /\ c'.textProto[1].limited = c.textProto[1].limited
              /\ c'.textProto[1].N <= c.textProto[1].N
        /\ (Starved /\ ret'.op \in ReadOps) => ret'.err # Nil ]_vars

\* A read failed for the cap before any transaction call; later, after a
\* Reset and a successful StartTX, a read has failed again with bytes of the
\* peer still on the transport.
C18_Witness ==
    /\ <<"read", "none">> \in seen
    /\ ret.op \in ReadOps /\ ret.err # Nil /\ ret.cap
    /\ ret.prev = "StartTX" /\ ret.open
    /\ net.wire # <<>>

\* The decimal numerals of the reply codes the caller writes.
Decimal == (250 :> <<"2", "5", "0">>) @@ (354 :> <<"3", "5", "4">>) @@ (7 :> <<"7">>)

\* C15: WriteSMTP(code, message) sets the write deadline and then hands the
\* transport, in one Write, exactly the code in decimal, a space, the message
\* and CR LF; WriteEHLO(message) exactly "250-", the message and CR LF;
\* WriteOK() exactly "250 OK" and CR LF; and in every state WriteOK() makes
\* the transport calls, returns the result and leaves the state that
\* WriteSMTP(250, "OK") does.
C15_WireFormat ==
    /\ ret.op \in WriteOps =>
          /\ Len(ret.calls) = 2
          /\ ret.calls[1].call = "SetWriteDeadline" /\ ret.calls[2].call = "Write"
          /\ ret.err = ret.calls[2].err
    /\ ret.op = "WriteSMTP" =>
          ret.calls[2].data = Decimal[ret.val[1]] \o <<" ">> \o ret.val[2] \o <<"CR", "LF">>
    /\ ret.op = "WriteEHLO" =>
          ret.calls[2].data = <<"2", "5", "0", "-">> \o ret.val[1] \o <<"CR", "LF">>
    /\ ret.op = "WriteOK" =>
          ret.calls[2].data = <<"2", "5", "0", " ", "O", "K", "CR", "LF">>
    /\ WriteOK(net, c, clock) = WriteSMTP(net, c, clock, 250, <<"O", "K">>)

\* WriteOK has written its line to the open transport at a later time than
\* the session began.
C15_Witness ==
    /\ ret.op = "WriteOK" /\ ret.err = Nil /\ ret.calls[2].n = 8
    /\ clock > 0 /\ net.wdl = clock + c.WriteTimeout

\* C11: the first transport call of every ReadSMTP, ReadLine and ReadData
\* sets the read deadline to the time of the call plus ReadTimeout, and every
\* Read the operation has the transport carry out runs under that deadline;
\* the first transport call of every WriteSMTP, WriteEHLO and WriteOK sets the
\* write deadline to the time of the call plus WriteTimeout, and its Write
\* runs under that deadline.  (A closed transport carries out no I/O: it
\* refuses the call at once.)
C11_DeadlineFirst ==
    /\ ret.op \in ReadOps =>
          /\ ret.calls # <<>>
          /\ ret.calls[1].call = "SetReadDeadline"
          /\ ret.calls[1].arg = ret.at + c.ReadTimeout
          /\ \A i \in 2..Len(ret.calls) :
                /\ ret.calls[i].call = "Read"
                /\ ret.calls[i].err # ErrClosed => ret.calls[i].dl = ret.calls[1].arg
    /\ ret.op \in WriteOps =>
          /\ Len(ret.calls) = 2
          /\ ret.calls[1].call = "SetWriteDeadline"
          /\ ret.calls[1].arg = ret.at + c.WriteTimeout
          /\ ret.calls[2].call = "Write"
          /\ ret.calls[2].err # ErrClosed => ret.calls[2].dl = ret.calls[1].arg

\* After a read that took the first line and a write, both made earlier, a
\* ReadData has pulled bytes from the transport under its own deadline.
C11_Witness ==
    /\ ret.op = "ReadData" /\ ret.err = Nil /\ ret.pulled > 0 /\ ret.at > 0
    /\ Len(got) > 3
    /\ net.wdl > 0 /\ net.wdl < ret.at + c.WriteTimeout
    /\ ret.calls[2].dl = ret.at + c.ReadTimeout

\* C12: no failure of a transport call is swallowed: when a call of
\* SetReadDeadline, SetWriteDeadline, Read or Write made by a read or write
\* operation has failed (the end of the stream, io.EOF, not counted), the
\* operation returns an error.
C12_NoSwallowedFailure ==
    ret.op \in ReadOps \cup WriteOps =>
        ( (\E i \in 1..Len(ret.calls) : ret.calls[i].err \notin {Nil, EOF})
              => ret.err # Nil )

====
